---- MODULE Spec2Model ----
(***************************************************************************)
(* A model of the wikipedia_api crate (src/src/lib.rs): Page::new,         *)
(* Page::search, Page::get_summary and the Display form of WikiError.      *)
(*                                                                         *)
(* Text is a sequence of one-character strings.  A URL or a message is a   *)
(* sequence too, in which each fixed piece of a format! template is one    *)
(* element.  A JSON value is a record tagged by t.                         *)
(***************************************************************************)
EXTENDS Integers, Sequences, FiniteSets, TLC

\* ------------------------------------------------------------- bounds

\* longest search term the caller passes
MaxLen == 3
\* longest titles / urls / pages array the server sends
MaxItems == 2
\* how many times the caller formats one returned error
MaxFmt == 2

\* ------------------------------------------------------------- text

Chars == {" ", "\t", "a"}

RECURSIVE StrsUpTo(_, _)
StrsUpTo(S, n) ==
    IF n = 0 THEN {<<>>}
    ELSE LET r == StrsUpTo(S, n - 1)
         IN  r \cup {Append(s, c) : s \in {x \in r : Len(x) = n - 1}, c \in S}

\* char::is_whitespace, on the characters the model draws
IsWhitespace(c) == c \in {" ", "\t", "\n"}

\* str::replace(' ', "%20")
RECURSIVE Replace(_)
Replace(s) ==
    IF s = <<>> THEN <<>>
    ELSE (IF Head(s) = " " THEN <<"%", "2", "0">> ELSE <<Head(s)>>) \o Replace(Tail(s))

RECURSIVE TrimStart(_)
TrimStart(s) ==
    IF s # <<>> /\ IsWhitespace(Head(s)) THEN TrimStart(Tail(s)) ELSE s

RECURSIVE TrimEnd(_)
TrimEnd(s) ==
    IF s # <<>> /\ IsWhitespace(s[Len(s)]) THEN TrimEnd(SubSeq(s, 1, Len(s) - 1)) ELSE s

\* str::trim
Trim(s) == TrimEnd(TrimStart(s))

\* ------------------------------------------------------------- option / result

None == <<>>
Some(x) == <<x>>

Ok(x) == [tag |-> "Ok", val |-> x]
Err(e) == [tag |-> "Err", val |-> e]

PageNotFoundError(term) == [kind |-> "PageNotFoundError", term |-> term]
PageRequestError == [kind |-> "PageRequestError"]
JsonParseError == [kind |-> "JsonParseError"]
ResponseError == [kind |-> "ResponseError"]

\* ------------------------------------------------------------- JSON values

JStr(s) == [t |-> "str", v |-> s]
JInt(n) == [t |-> "int", v |-> n]
JFloat == [t |-> "float"]
JBool(b) == [t |-> "bool", v |-> b]
JNull == [t |-> "null"]
JArr(a) == [t |-> "arr", v |-> a]
JObj(f) == [t |-> "obj", v |-> f]
\* a body that is not JSON text at all
RawText == [t |-> "raw"]
\* the body stream fails while it is read
BodyIoError == [t |-> "ioerr"]

\* ------------------------------------------------------------- serde decoding
\* Each decoder yields Some(value) or None (a serde error).  serde_json reads a
\* String from a JSON string only, a Vec and a tuple from an array only (a
\* tuple of exactly its arity), an i64 from an integer, a bool from a boolean,
\* and a derived struct from an object holding every field (unknown fields
\* are skipped) or from an array holding the fields in declaration order.

DeString(j) == IF j.t = "str" THEN Some(j.v) ELSE None

DeI64(j) == IF j.t = "int" THEN Some(j.v) ELSE None

DeBool(j) == IF j.t = "bool" THEN Some(j.v) ELSE None

DeVecString(j) ==
    IF j.t = "arr" /\ \A i \in 1..Len(j.v) : DeString(j.v[i]) # None
    THEN Some([i \in 1..Len(j.v) |-> DeString(j.v[i])[1]])
    ELSE None

\* type SearchResult = (String, Vec<String>, Vec<String>, Vec<String>)
DeSearchResult(j) ==
    IF /\ j.t = "arr"
       /\ Len(j.v) = 4
       /\ DeString(j.v[1]) # None
       /\ \A i \in 2..4 : DeVecString(j.v[i]) # None
    THEN Some(<<DeString(j.v[1])[1], DeVecString(j.v[2])[1],
                DeVecString(j.v[3])[1], DeVecString(j.v[4])[1]>>)
    ELSE None

\* the fields of a struct, by name or by position
StructFields(j, names) ==
    IF j.t = "obj" /\ \A i \in 1..Len(names) : names[i] \in DOMAIN j.v
    THEN Some([i \in 1..Len(names) |-> j.v[names[i]]])
    ELSE IF j.t = "arr" /\ Len(j.v) = Len(names)
    THEN Some(j.v)
    ELSE None

RPageFields == <<"pageid", "ns", "title", "extract">>

\* struct RPage, with #[serde(default)] on extract
DeRPage_DefaultExtract(j) ==
    LET f == StructFields(j, RPageFields)
        g == StructFields(j, <<"pageid", "ns", "title">>)
    IN  IF /\ f # None
           /\ DeI64(f[1][1]) # None
           /\ DeI64(f[1][2]) # None
           /\ DeString(f[1][3]) # None
           /\ DeString(f[1][4]) # None
        THEN Some([pageid |-> DeI64(f[1][1])[1], ns |-> DeI64(f[1][2])[1],
                   title |-> DeString(f[1][3])[1], extract |-> DeString(f[1][4])[1]])
        ELSE IF /\ j.t = "obj"
                /\ g # None
                /\ "extract" \notin DOMAIN j.v
                /\ DeI64(g[1][1]) # None
                /\ DeI64(g[1][2]) # None
                /\ DeString(g[1][3]) # None
        THEN Some([pageid |-> DeI64(g[1][1])[1], ns |-> DeI64(g[1][2])[1],
                   title |-> DeString(g[1][3])[1], extract |-> <<>>])
        ELSE None

\* struct RPage
DeRPage(j) ==
    LET f == StructFields(j, RPageFields)
    IN  IF /\ f # None
           /\ DeI64(f[1][1]) # None
           /\ DeI64(f[1][2]) # None
           /\ DeString(f[1][3]) # None
           /\ DeString(f[1][4]) # None
        THEN Some([pageid |-> DeI64(f[1][1])[1], ns |-> DeI64(f[1][2])[1],
                   title |-> DeString(f[1][3])[1], extract |-> DeString(f[1][4])[1]])
        ELSE None

DeVecRPage(j) ==
    IF j.t = "arr" /\ \A i \in 1..Len(j.v) : DeRPage(j.v[i]) # None
    THEN Some([i \in 1..Len(j.v) |-> DeRPage(j.v[i])[1]])
    ELSE None

\* struct Query
DeQuery(j) ==
    LET f == StructFields(j, <<"pages">>)
    IN  IF f # None /\ DeVecRPage(f[1][1]) # None
        THEN Some([pages |-> DeVecRPage(f[1][1])[1]])
        ELSE None

\* struct SummaryResponse
DeSummaryResponse(j) ==
    LET f == StructFields(j, <<"batchcomplete", "query">>)
    IN  IF f # None /\ DeBool(f[1][1]) # None /\ DeQuery(f[1][2]) # None
        THEN Some([batchcomplete |-> DeBool(f[1][1])[1], query |-> DeQuery(f[1][2])[1]])
        ELSE None

\* Response::json::<T>(): read the whole body, then parse it as T
Readable(body) == body.t \notin {"ioerr", "raw"}
JsonSearchResult(body) == IF Readable(body) THEN DeSearchResult(body) ELSE None
JsonSummaryResponse(body) == IF Readable(body) THEN DeSummaryResponse(body) ELSE None

\* ------------------------------------------------------------- the library

\* Page::new
PageNew_Swapped(title, url) == [title |-> url, url |-> title]

PageNew(title, url) == [title |-> title, url |-> url]

SearchPrefix == "https://en.wikipedia.org/w/api.php?action=opensearch&search="
SearchSuffix == "&limit=1&namespace=0&format=json"

\* Page::search, the request URL: trim first, replace after
BuildSearchUrl_TrimFirst(search_term) ==
    <<SearchPrefix>> \o Replace(Trim(search_term)) \o <<SearchSuffix>>

\* Page::search, the request URL
BuildSearchUrl(search_term) ==
    LET title == Replace(search_term)
    IN  <<SearchPrefix>> \o Trim(title) \o <<SearchSuffix>>

SummaryPrefix ==
    "https://en.wikipedia.org/w/api.php?action=query&format=json&prop=extracts&titles="
SummarySuffix == "&formatversion=2&exchars=1000&explaintext=1&redirects=1"

\* Page::get_summary, the request URL, with the title's spaces replaced
BuildSummaryUrl_Encoded(title) ==
    <<SummaryPrefix>> \o Replace(title) \o <<SummarySuffix>>

\* Page::get_summary, the request URL
BuildSummaryUrl(title) == <<SummaryPrefix>> \o title \o <<SummarySuffix>>

\* Page::search after the decode, reporting the encoded term
SearchExtract_EncodedTerm(resp, search_term) ==
    IF Len(resp[2]) = 0 THEN Err(PageNotFoundError(Replace(search_term)))
    ELSE IF Len(resp[4]) = 0 THEN Err(PageNotFoundError(Replace(search_term)))
    ELSE Ok(PageNew(resp[2][1], resp[4][1]))

\* Page::search after the decode, reading the last match
SearchExtract_Last(resp, search_term) ==
    IF Len(resp[2]) = 0 THEN Err(PageNotFoundError(search_term))
    ELSE IF Len(resp[4]) = 0 THEN Err(PageNotFoundError(search_term))
    ELSE Ok(PageNew(resp[2][Len(resp[2])], resp[4][Len(resp[4])]))

\* Page::search after the decode: resp.1.get(0), resp.3.get(0), Self::new(t, u)
SearchExtract(resp, search_term) ==
    IF Len(resp[2]) = 0 THEN Err(PageNotFoundError(search_term))
    ELSE IF Len(resp[4]) = 0 THEN Err(PageNotFoundError(search_term))
    ELSE Ok(PageNew(resp[2][1], resp[4][1]))

\* Page::get_summary after the decode, reading the last page
SummaryExtract_Last(resp) ==
    IF Len(resp.query.pages) = 0 THEN Err(ResponseError)
    ELSE Ok(resp.query.pages[Len(resp.query.pages)].extract)

\* Page::get_summary after the decode: resp.query.pages.get(0), .extract
SummaryExtract(resp) ==
    IF Len(resp.query.pages) = 0 THEN Err(ResponseError)
    ELSE Ok(resp.query.pages[1].extract)

InfoEvent(request_url) ==
    [level |-> "info", msg |-> <<"Requested '">> \o request_url \o <<"'">>]
ErrorEvent(m) == [level |-> "error", msg |-> <<m>>]

\* impl Display for WikiError: the text written, and the events logged
Display(e) ==
    CASE e.kind = "PageNotFoundError" ->
            [text |-> <<"PageNotFound: Couldn't find '">> \o e.term \o <<"'.">>,
             events |-> <<>>]
      [] e.kind = "PageRequestError" ->
            [text |-> <<"PageRequestError: Internal error.">>,
             events |-> <<ErrorEvent("PageRequestError: Internal error.")>>]
      [] e.kind = "JsonParseError" ->
            [text |-> <<"JsonParseError: Internal response parsing error.">>,
             events |-> <<ErrorEvent("JsonParseError: Internal response parsing error.")>>]
      [] e.kind = "ResponseError" ->
            [text |-> <<"ResponseError: Wikipedia returned an unexpected result.">>,
             events |->
                <<ErrorEvent("ResponseError: Wikipedia returned an unexpected result.")>>]

\* ------------------------------------------------------------- inputs

\* titles, urls, extracts the server sends and the caller passes to Page::new
Texts == {<<>>, <<"a", " ", "b">>}

Terms == StrsUpTo(Chars, MaxLen)

Lists == StrsUpTo(Texts, MaxItems)

JStrs(l) == [i \in 1..Len(l) |-> JStr(l[i])]

\* opensearch answers of the expected shape
SearchBodies ==
    {JArr(<<JStr(e), JArr(JStrs(ts)), JArr(JStrs(ds)), JArr(JStrs(us))>>) :
        e \in {<<>>, <<"a">>}, ts \in Lists, ds \in {<<>>, <<<<"a">>>>}, us \in Lists}

\* answers that are not of that shape
BadSearchBodies ==
    { RawText, BodyIoError, JNull, JStr(<<"a">>), JArr(<<>>),
      JObj([error |-> JStr(<<"a">>)]),
      JArr(<<JStr(<<>>), JArr(<<JStr(<<"a">>)>>), JArr(<<>>)>>),
      JArr(<<JStr(<<>>), JArr(<<JStr(<<"a">>)>>), JArr(<<>>),
             JArr(<<JStr(<<"a">>)>>), JArr(<<>>)>>),
      JArr(<<JInt(1), JArr(<<JStr(<<"a">>)>>), JArr(<<>>), JArr(<<JStr(<<"a">>)>>)>>),
      JArr(<<JStr(<<>>), JStr(<<"a">>), JArr(<<>>), JArr(<<JStr(<<"a">>)>>)>>),
      JArr(<<JStr(<<>>), JArr(<<JInt(1)>>), JArr(<<>>), JArr(<<JStr(<<"a">>)>>)>>),
      JArr(<<JStr(<<>>), JArr(<<JStr(<<"a">>)>>), JArr(<<>>), JArr(<<JNull>>)>>),
      JArr(<<JStr(<<>>), JArr(<<JStr(<<"a">>)>>), JArr(<<>>), JNull>>) }

RPageObj(x) ==
    JObj([pageid |-> JInt(1), ns |-> JInt(0), title |-> JStr(<<"a">>), extract |-> JStr(x)])
RPageArr(x) == JArr(<<JInt(1), JInt(0), JStr(<<"a">>), JStr(x)>>)

RPageObjs(l) == [i \in 1..Len(l) |-> RPageObj(l[i])]

SummaryObj(b, pages) ==
    JObj([batchcomplete |-> JBool(b), query |-> JObj([pages |-> JArr(pages)])])

\* query answers of the expected shape
SummaryBodies ==
    {SummaryObj(b, RPageObjs(l)) : b \in BOOLEAN, l \in Lists}
    \cup { JObj([batchcomplete |-> JBool(TRUE),
                 warnings |-> JObj([main |-> JStr(<<"a">>)]),
                 query |-> JObj([normalized |-> JArr(<<>>),
                                 pages |-> JArr(<<RPageObj(<<"a">>)>>)])]) }

\* the same data with a struct written as the array of its fields
PositionalSummaryBodies ==
    { JArr(<<JBool(TRUE), JObj([pages |-> JArr(<<>>)])>>),
      JArr(<<JBool(TRUE), JArr(<<JArr(<<RPageArr(<<"a">>)>>)>>)>>),
      SummaryObj(TRUE, <<RPageArr(<<"a", " ", "b">>)>>),
      JObj([batchcomplete |-> JBool(FALSE), query |-> JArr(<<JArr(<<>>)>>)]) }

\* answers of neither shape
BadSummaryBodies ==
    { RawText, BodyIoError, JNull, JArr(<<>>), JObj([error |-> JStr(<<"a">>)]),
      JObj([batchcomplete |-> JBool(TRUE)]),
      JObj([query |-> JObj([pages |-> JArr(<<>>)])]),
      JObj([batchcomplete |-> JStr(<<>>), query |-> JObj([pages |-> JArr(<<>>)])]),
      JObj([batchcomplete |-> JBool(TRUE), query |-> JObj([pages |-> JNull])]),
      JObj([batchcomplete |-> JBool(TRUE), query |-> JNull]),
      JObj([batchcomplete |-> JBool(TRUE),
            query |-> JObj([pages |-> JObj([a |-> RPageObj(<<"a">>)])])]),
      SummaryObj(TRUE, <<JObj([pageid |-> JInt(1), ns |-> JInt(0),
                               title |-> JStr(<<"a">>)])>>),
      SummaryObj(TRUE, <<JObj([pageid |-> JInt(1), ns |-> JInt(0),
                               title |-> JStr(<<"a">>), missing |-> JBool(TRUE)])>>),
      SummaryObj(TRUE, <<JObj([pageid |-> JStr(<<"a">>), ns |-> JInt(0),
                               title |-> JStr(<<"a">>), extract |-> JStr(<<"a">>)])>>),
      SummaryObj(TRUE, <<JObj([pageid |-> JFloat, ns |-> JInt(0),
                               title |-> JStr(<<"a">>), extract |-> JStr(<<"a">>)])>>),
      SummaryObj(TRUE, <<JObj([pageid |-> JInt(1), ns |-> JInt(0),
                               title |-> JStr(<<"a">>), extract |-> JNull])>>),
      SummaryObj(TRUE, <<RPageObj(<<"a">>), JNull>>),
      SummaryObj(TRUE, <<JArr(<<JInt(1), JInt(0), JStr(<<"a">>)>>)>>),
      JArr(<<JBool(TRUE), JObj([pages |-> JArr(<<>>)]), JNull>>) }

\* HTTP status codes of a response
Statuses == {200, 404}

\* how reqwest::get(url).await ends: no response at all, or a response of any
\* status (reqwest does not turn a status into an error unless asked to)
Outcomes(bodies) ==
    {[kind |-> "ConnectError"]}
    \cup {[kind |-> "Response", status |-> s, body |-> b] : s \in Statuses, b \in bodies}

\* ------------------------------------------------------------- state

VARIABLES
    pc,           \* where the call in progress stands: idle, built, sent, decoded, done
    op,           \* the call in progress: none, search, summary
    search_term,  \* Page::search's argument
    request_url,  \* the URL the call built
    gets,         \* HTTP GETs the call has issued
    resp,         \* how the GET ended
    decoded,      \* the value .json::<T>() gave
    result,       \* what the call returns
    stages,       \* the stages of the call that have run, in order
    log,          \* the events logged since the call began
    fmts,         \* how many times the caller has formatted the returned error
    shown,        \* the text the last formatting wrote
    page,         \* the Page the caller holds
    new_args      \* the arguments of the Page::new call that made it

vars == <<pc, op, search_term, request_url, gets, resp, decoded, result, stages,
          log, fmts, shown, page, new_args>>

call_vars == <<op, search_term, request_url, gets, resp, decoded, result, stages,
               log, fmts, shown>>

Init ==
    /\ pc = "idle"
    /\ op = "none"
    /\ search_term = <<>>
    /\ request_url = <<>>
    /\ gets = 0
    /\ resp = None
    /\ decoded = None
    /\ result = None
    /\ stages = <<>>
    /\ log = <<>>
    /\ fmts = 0
    /\ shown = None
    /\ page = None
    /\ new_args = None

\* ------------------------------------------------------------- the caller

\* let page = Page::new(title, url)
CallNew(title, url) ==
    /\ pc = "idle"
    /\ page = None
    /\ page' = Some(PageNew(title, url))
    /\ new_args' = Some(<<title, url>>)
    /\ UNCHANGED <<pc, call_vars>>

\* the caller lets go of its Page
Drop ==
    /\ pc = "idle"
    /\ page # None
    /\ page' = None
    /\ new_args' = None
    /\ UNCHANGED <<pc, call_vars>>

\* format!("{e}") on the error a call returned
Fmt ==
    /\ pc = "done"
    /\ result[1].tag = "Err"
    /\ fmts < MaxFmt
    /\ LET d == Display(result[1].val)
       IN  /\ shown' = Some(d.text)
           /\ log' = log \o d.events
    /\ fmts' = fmts + 1
    /\ UNCHANGED <<pc, op, search_term, request_url, gets, resp, decoded, result,
                   stages, page, new_args>>

\* the call returns: the caller binds a Page that search gave, and the call's
\* own state is gone
Return ==
    /\ pc = "done"
    /\ pc' = "idle"
    /\ page' = IF op = "search" /\ result[1].tag = "Ok" THEN Some(result[1].val) ELSE page
    /\ op' = "none"
    /\ search_term' = <<>>
    /\ request_url' = <<>>
    /\ gets' = 0
    /\ resp' = None
    /\ decoded' = None
    /\ result' = None
    /\ stages' = <<>>
    /\ log' = <<>>
    /\ fmts' = 0
    /\ shown' = None
    /\ UNCHANGED new_args

\* ------------------------------------------------------------- the pipeline

\* a call begins by building its URL
Build(o, term, url) ==
    /\ pc = "idle"
    /\ pc' = "built"
    /\ op' = o
    /\ search_term' = term
    /\ request_url' = url
    /\ stages' = <<"build">>
    /\ UNCHANGED <<gets, resp, decoded, result, log, fmts, shown, page, new_args>>

\* reqwest::get(&request_url).await sent twice when the first attempt fails
Get_Retry(outcomes) ==
    /\ pc = "built"
    /\ \E first \in outcomes, o \in outcomes :
        /\ gets' = IF first.kind = "ConnectError" THEN gets + 2 ELSE gets + 1
        /\ resp' = Some(o)
        /\ IF o.kind = "ConnectError"
           THEN /\ result' = Some(Err(PageRequestError))
                /\ pc' = "done"
                /\ log' = log
           ELSE /\ log' = Append(log, InfoEvent(request_url))
                /\ pc' = "sent"
                /\ result' = result
    /\ stages' = Append(stages, "send")
    /\ UNCHANGED <<op, search_term, request_url, decoded, fmts, shown, page, new_args>>

\* reqwest::get(&request_url).await with error!() where the failure is seen
Get_LogsError(outcomes) ==
    /\ pc = "built"
    /\ \E o \in outcomes :
        /\ gets' = gets + 1
        /\ resp' = Some(o)
        /\ IF o.kind = "ConnectError"
           THEN /\ result' = Some(Err(PageRequestError))
                /\ pc' = "done"
                /\ log' = Append(log, ErrorEvent("PageRequestError: Internal error."))
           ELSE /\ log' = Append(log, InfoEvent(request_url))
                /\ pc' = "sent"
                /\ result' = result
    /\ stages' = Append(stages, "send")
    /\ UNCHANGED <<op, search_term, request_url, decoded, fmts, shown, page, new_args>>

\* match reqwest::get(&request_url).await { Ok(x) => { info!(..); x }
\*                                          Err(_) => return Err(PageRequestError) }
Get(outcomes) ==
    /\ pc = "built"
    /\ \E o \in outcomes :
        /\ gets' = gets + 1
        /\ resp' = Some(o)
        /\ IF o.kind = "ConnectError"
           THEN /\ result' = Some(Err(PageRequestError))
                /\ pc' = "done"
                /\ log' = log
           ELSE /\ log' = Append(log, InfoEvent(request_url))
                /\ pc' = "sent"
                /\ result' = result
    /\ stages' = Append(stages, "send")
    /\ UNCHANGED <<op, search_term, request_url, decoded, fmts, shown, page, new_args>>

\* .json::<T>().await, whose Err is mapped to JsonParseError
Json(value) ==
    /\ pc = "sent"
    /\ decoded' = value
    /\ IF value = None
       THEN /\ result' = Some(Err(JsonParseError))
            /\ pc' = "done"
       ELSE /\ result' = result
            /\ pc' = "decoded"
    /\ stages' = Append(stages, "decode")
    /\ UNCHANGED <<op, search_term, request_url, gets, resp, log, fmts, shown,
                   page, new_args>>

\* the first element is read and the call returns
Extract(r) ==
    /\ pc = "decoded"
    /\ result' = Some(r)
    /\ pc' = "done"
    /\ stages' = Append(stages, "extract")
    /\ UNCHANGED <<op, search_term, request_url, gets, resp, decoded, log, fmts,
                   shown, page, new_args>>

\* Page::search(search_term)
SearchBuild(term) == page = None /\ Build("search", term, BuildSearchUrl(term))
SearchSend == op = "search" /\ Get(Outcomes(SearchBodies \cup BadSearchBodies))
SearchDecode == op = "search" /\ Json(JsonSearchResult(resp[1].body))
SearchFinish == op = "search" /\ Extract(SearchExtract(decoded[1], search_term))

\* page.get_summary()
SummaryBuild == page # None /\ Build("summary", <<>>, BuildSummaryUrl(page[1].title))
SummarySend ==
    /\ op = "summary"
    /\ Get(Outcomes(SummaryBodies \cup PositionalSummaryBodies \cup BadSummaryBodies))
SummaryDecode == op = "summary" /\ Json(JsonSummaryResponse(resp[1].body))
SummaryFinish == op = "summary" /\ Extract(SummaryExtract(decoded[1]))

Next ==
    \/ \E title \in Texts, url \in Texts : CallNew(title, url)
    \/ Drop
    \/ Fmt
    \/ Return
    \/ \E term \in Terms : SearchBuild(term)
    \/ SearchSend
    \/ SearchDecode
    \/ SearchFinish
    \/ SummaryBuild
    \/ SummarySend
    \/ SummaryDecode
    \/ SummaryFinish

Spec == Init /\ [][Next]_vars

\* ------------------------------------------------------------- vocabulary of the claims
\* The wire shapes, read off the body itself.

IsStrArray(j) == j.t = "arr" /\ \A k \in 1..Len(j.v) : j.v[k].t = "str"

\* [echoed_term, titles, descriptions, urls]
IsSearchShape(b) ==
    /\ b.t = "arr"
    /\ Len(b.v) = 4
    /\ b.v[1].t = "str"
    /\ \A i \in 2..4 : IsStrArray(b.v[i])

HasField(j, name, type) == name \in DOMAIN j.v /\ j.v[name].t = type

IsRPageObject(j) ==
    /\ j.t = "obj"
    /\ HasField(j, "pageid", "int")
    /\ HasField(j, "ns", "int")
    /\ HasField(j, "title", "str")
    /\ HasField(j, "extract", "str")

\* { batchcomplete: bool, query: { pages: [RPage, ...] } }
IsSummaryShape(b) ==
    /\ b.t = "obj"
    /\ HasField(b, "batchcomplete", "bool")
    /\ HasField(b, "query", "obj")
    /\ HasField(b.v.query, "pages", "arr")
    /\ \A k \in 1..Len(b.v.query.v.pages.v) : IsRPageObject(b.v.query.v.pages.v[k])

\* the same, where any of the three objects may be the array of its fields
IsRPageEither(j) ==
    \/ IsRPageObject(j)
    \/ /\ j.t = "arr"
       /\ Len(j.v) = 4
       /\ j.v[1].t = "int" /\ j.v[2].t = "int" /\ j.v[3].t = "str" /\ j.v[4].t = "str"

IsPagesArray(j) == j.t = "arr" /\ \A k \in 1..Len(j.v) : IsRPageEither(j.v[k])

IsQueryEither(j) ==
    \/ j.t = "obj" /\ "pages" \in DOMAIN j.v /\ IsPagesArray(j.v.pages)
    \/ j.t = "arr" /\ Len(j.v) = 1 /\ IsPagesArray(j.v[1])

IsSummaryEither(b) ==
    \/ /\ b.t = "obj"
       /\ HasField(b, "batchcomplete", "bool")
       /\ "query" \in DOMAIN b.v
       /\ IsQueryEither(b.v.query)
    \/ /\ b.t = "arr"
       /\ Len(b.v) = 2
       /\ b.v[1].t = "bool"
       /\ IsQueryEither(b.v[2])

\* the call has ended and its GET was answered
Answered(o) == pc = "done" /\ op = o /\ resp[1].kind = "Response"

Body == resp[1].body
Titles == Body.v[2].v
Urls == Body.v[4].v
Pages == Body.v.query.v.pages.v

Returned == result[1]
ReturnedErr(kind) == Returned.tag = "Err" /\ Returned.val.kind = kind

ErrorEvents == {i \in 1..Len(log) : log[i].level = "error"}

\* ------------------------------------------------------------- C1

\* C1: when the search answer is the 4-tuple with titles and urls both
\* non-empty, Page::search returns Ok(Page) with title titles[0] and url
\* urls[0], whatever the echoed term, the descriptions and the later elements.
C1_FirstMatch ==
    (Answered("search") /\ IsSearchShape(Body) /\ Len(Titles) > 0 /\ Len(Urls) > 0)
        => /\ Returned.tag = "Ok"
           /\ Returned.val = [title |-> Titles[1].v, url |-> Urls[1].v]

C1_Witness ==
    /\ Answered("search") /\ IsSearchShape(Body)
    /\ Len(Titles) = 2 /\ Titles[1] # Titles[2]
    /\ Len(Urls) = 2 /\ Urls[1] # Urls[2]
    /\ Len(Body.v[3].v) > 0
    /\ Returned.tag = "Ok"

\* ------------------------------------------------------------- C2

\* C2: when the search answer is the 4-tuple but titles or urls is empty,
\* Page::search returns Err(PageNotFoundError(t)) with t the term exactly as
\* the caller gave it, and no Page.
C2_NotFound ==
    (Answered("search") /\ IsSearchShape(Body) /\ (Len(Titles) = 0 \/ Len(Urls) = 0))
        => /\ ReturnedErr("PageNotFoundError")
           /\ Returned.val.term = search_term
           /\ page = None

C2_Witness ==
    /\ Answered("search") /\ IsSearchShape(Body)
    /\ Len(Titles) > 0 /\ Len(Urls) = 0
    /\ search_term = <<" ", "a", " ">>
    /\ ReturnedErr("PageNotFoundError")

\* ------------------------------------------------------------- C3

C3_Extract ==
    /\ (Answered("summary") /\ IsSummaryShape(Body))
        => IF Len(Pages) = 0
           THEN ReturnedErr("ResponseError")
           ELSE Returned.tag = "Ok" /\ Returned.val = Pages[1].v.extract.v
    /\ (pc = "done" /\ op = "summary" /\ decoded # None)
        => IF Len(decoded[1].query.pages) = 0
           THEN ReturnedErr("ResponseError")
           ELSE Returned.tag = "Ok" /\ Returned.val = decoded[1].query.pages[1].extract

\* C3: when the summary answer decodes, get_summary returns Err(ResponseError)
\* if query.pages is empty and Ok(pages[0].extract), unchanged, otherwise; the
\* Page it was called on stays as it was.
C3_Summary == [] C3_Extract /\ [][op = "summary" => page' = page]_vars

C3_Witness ==
    /\ Answered("summary") /\ IsSummaryShape(Body)
    /\ Len(Pages) = 2 /\ Pages[1] # Pages[2]
    /\ Returned.tag = "Ok" /\ Returned.val = <<"a", " ", "b">>

\* ------------------------------------------------------------- C4

MatchesWireShape == IF op = "search" THEN IsSearchShape(Body) ELSE IsSummaryShape(Body)

Decodable == IF op = "search" THEN IsSearchShape(Body) ELSE IsSummaryEither(Body)

\* C4 as claimed: every body that does not match the expected wire shape makes
\* the call return Err(JsonParseError).
C4_AsClaimed ==
    (pc = "done" /\ resp[1].kind = "Response" /\ Body.t # "ioerr" /\ ~MatchesWireShape)
        => ReturnedErr("JsonParseError")

\* C4, amended: every body that is not JSON, or is JSON of neither the
\* expected wire shape nor that shape with an object written as the array of
\* its fields, makes the call return Err(JsonParseError).
C4_Mismatch ==
    (pc = "done" /\ resp[1].kind = "Response" /\ Body.t # "ioerr" /\ ~Decodable)
        => ReturnedErr("JsonParseError")

C4_Witness ==
    /\ Answered("summary")
    /\ Body.t = "obj" /\ HasField(Body, "query", "obj") /\ HasField(Body.v.query, "pages", "arr")
    /\ Len(Pages) = 1 /\ Pages[1].t = "obj" /\ "extract" \notin DOMAIN Pages[1].v
    /\ ReturnedErr("JsonParseError")

\* ------------------------------------------------------------- C5

\* C5: a connection failure, a non-success HTTP status or a transport error of
\* the GET makes the call return Err(PageRequestError).
C5_TransportFailure ==
    (pc = "done" /\ (\/ resp[1].kind = "ConnectError"
                     \/ resp[1].status # 200
                     \/ Body.t = "ioerr"))
        => ReturnedErr("PageRequestError")

\* ------------------------------------------------------------- C6

Pipeline == <<"build", "send", "decode", "extract">>

\* C6: a call runs build, send, decode, extract in that order, issues exactly
\* one GET, stops at the first stage that fails, and ends with one result,
\* Ok or one WikiError.
C6_Pipeline ==
    /\ stages = SubSeq(Pipeline, 1, Len(stages))
    /\ gets = (IF Len(stages) >= 2 THEN 1 ELSE 0)
    /\ pc # "done" => result = None
    /\ pc = "done" =>
        /\ gets = 1
        /\ result # None
        /\ \/ Len(stages) = 2 /\ resp[1].kind = "ConnectError"
              /\ ReturnedErr("PageRequestError")
           \/ Len(stages) = 3 /\ resp[1].kind = "Response" /\ decoded = None
              /\ ReturnedErr("JsonParseError")
           \/ Len(stages) = 4 /\ decoded # None
              /\ \/ Returned.tag = "Ok"
                 \/ op = "search" /\ ReturnedErr("PageNotFoundError")
                 \/ op = "summary" /\ ReturnedErr("ResponseError")

C6_Witness ==
    /\ pc = "done" /\ op = "search" /\ gets = 1
    /\ stages = <<"build", "send", "decode">>
    /\ ReturnedErr("JsonParseError")
    /\ fmts = MaxFmt

\* ------------------------------------------------------------- C7

\* the term without the whitespace at its ends that the replacement leaves
\* there: every whitespace character but the space
Trimmed(c) == c \in {"\t", "\n"}
Core(s) ==
    LET keep == {i \in 1..Len(s) : ~Trimmed(s[i])}
    IN  IF keep = {} THEN <<>>
        ELSE SubSeq(s, CHOOSE i \in keep : \A k \in keep : i <= k,
                       CHOOSE j \in keep : \A k \in keep : j >= k)
\* where character k of the term lands in the URL
Landing(s, k) == k + 2 * Cardinality({q \in 1..(k - 1) : s[q] = " "})

\* C7: Page::search requests the fixed prefix, then the term with every space
\* replaced by %20 and then trimmed, then the fixed suffix; no space of the
\* term reaches the URL and no other character is altered.
C7_SearchUrl ==
    op = "search" =>
        LET core == Core(search_term)
            n == Len(request_url)
            mid == SubSeq(request_url, 2, n - 1)
        IN  /\ n >= 2
            /\ request_url[1] = "https://en.wikipedia.org/w/api.php?action=opensearch&search="
            /\ request_url[n] = "&limit=1&namespace=0&format=json"
            /\ Len(mid) = Landing(core, Len(core) + 1) - 1
            /\ \A k \in 1..Len(core) :
                IF core[k] = " "
                THEN SubSeq(mid, Landing(core, k), Landing(core, k) + 2) = <<"%", "2", "0">>
                ELSE mid[Landing(core, k)] = core[k]
            /\ \A i \in 1..n : request_url[i] # " "

C7_Witness ==
    /\ op = "search" /\ pc = "sent"
    /\ search_term = <<" ", "a", "\t">>
    /\ Len(request_url) = 6

\* ------------------------------------------------------------- C8

\* C8 as claimed: every Page has a non-empty title and a non-empty url.
C8_AsClaimed == page # None => page[1].title # <<>> /\ page[1].url # <<>>

Constructed(p) ==
    IF new_args' # None
    THEN p.title = new_args'[1][1] /\ p.url = new_args'[1][2]
    ELSE p.title = Titles[1].v /\ p.url = Urls[1].v

\* C8, amended: a Page's title and url are the strings given to Page::new, or
\* titles[0] and urls[0] of the search answer, empty or not, and they never
\* change once the Page is constructed.
C8_Immutable ==
    [][/\ page # None => page' \in {page, None}
       /\ (page = None /\ page' # None) => Constructed(page'[1])]_vars

C8_Witness ==
    /\ page # None /\ page[1].title = <<>> /\ page[1].url # <<>>
    /\ new_args = None
    /\ pc = "done" /\ op = "summary"

\* ------------------------------------------------------------- C9

\* C9 as claimed: get_summary requests ...titles=<title>&formatversion=2&exintro=1&explaintext=1
C9_AsClaimed ==
    op = "summary" =>
        request_url =
            <<"https://en.wikipedia.org/w/api.php?action=query&format=json&prop=extracts&titles=">>
            \o page[1].title \o <<"&formatversion=2&exintro=1&explaintext=1">>

\* C9, amended: get_summary requests
\* ...titles=<title>&formatversion=2&exchars=1000&explaintext=1&redirects=1
\* with the Page's title as stored.
C9_SummaryUrl ==
    op = "summary" =>
        request_url =
            <<"https://en.wikipedia.org/w/api.php?action=query&format=json&prop=extracts&titles=">>
            \o page[1].title
            \o <<"&formatversion=2&exchars=1000&explaintext=1&redirects=1">>

C9_Witness ==
    /\ op = "summary" /\ pc = "sent"
    /\ page[1].title = <<"a", " ", "b">>
    /\ Len(request_url) = 5

\* ------------------------------------------------------------- C10

\* C10 as claimed: once a call has detected a PageRequestError or a
\* JsonParseError, an error event has been logged, whether or not the caller
\* formats the error.
C10_AsClaimed ==
    (pc = "done" /\ (ReturnedErr("PageRequestError") \/ ReturnedErr("JsonParseError")))
        => ErrorEvents # {}

Formatted ==
    IF pc = "done" /\ Returned.tag = "Err" /\ Returned.val.kind # "PageNotFoundError"
    THEN fmts ELSE 0

\* C10, amended: the calls log no error event; one is logged each time the
\* caller formats a PageRequestError, a JsonParseError or a ResponseError, and
\* the returned value stays what it was.
C10_LoggedOnDisplay ==
    /\ [](Cardinality(ErrorEvents) = Formatted)
    /\ [][(pc = "done" /\ pc' = "done") => result' = result]_vars

C10_Witness ==
    /\ pc = "done" /\ ReturnedErr("JsonParseError")
    /\ fmts = 1 /\ Cardinality(ErrorEvents) = 1
    /\ log[Len(log)].level = "error"

====
